---- MODULE Spec2Model ----
(***************************************************************************)
(* Discrete-event simulator of bft_simulator_runtime (simulator.rs):       *)
(* the pending-event heap, the global clock, the per-node envelopes with    *)
(* their cancellation watermark, and the dispatcher loop loop_until with   *)
(* process_node_actions.  The consensus node behind the ConsensusNode /     *)
(* DataSyncNode traits is abstract: every value a node method returns is a  *)
(* nondeterministic choice from a small set.  The module also holds the     *)
(* records of librabft_simulator (record.rs): their hashes, the digest and  *)
(* the four signing constructors.                                           *)
(***************************************************************************)
EXTENDS Bags, FiniteSets, Integers, Sequences, TLC

\* ------------------------------------------------------------------ bounds
NumNodes == 2          \* largest num_nodes handed to Simulator::new
MaxDelaySample == 2    \* largest log-normal sample, in 1/SampleScale ticks
MaxNodeTime == 1       \* largest next_scheduled_update a node returns
MaxClock == 2          \* largest max_clock handed to loop_until
MaxPayload == 1        \* notifications, requests, responses, node states
MaxPending == 3        \* cap on the size of pending_events
MaxVotes == 1          \* longest votes vector of a QuorumCertificate
GossipMaxNodeTime == 2 \* largest next_scheduled_update of a gossiping node
GossipMaxClock == 3    \* largest max_clock handed to loop_until in a gossip run

SampleScale == 2       \* a sample h stands for the real delay h / SampleScale

DelaySamples == 1 .. MaxDelaySample
NodeTimes == 0 .. MaxNodeTime
MaxClocks == 0 .. MaxClock
Payloads == 0 .. MaxPayload

VARIABLES
    clock,          \* Simulator.clock
    pending_events, \* Simulator.pending_events, a bag of scheduled events
    nodes,          \* Simulator.nodes, one SimulatedNode per author
    pc,             \* "idle" outside loop_until, "loop" inside its while loop
    max_clock,      \* parameter of the running loop_until call
    popped,         \* history: the scheduled event taken by the last pop
    outcome,        \* history: what the last step did with it
    pushed,         \* history: the pushes of the last step
    calls,          \* history: the node methods the last step called, in order
    last_timer,     \* history: deadline of the last timer pushed per author
    record          \* the Record the last make_* constructor returned

vars == <<clock, pending_events, nodes, pc, max_clock, popped, outcome,
          pushed, calls, last_timer, record>>

\* The authors of the simulation: 0 .. num_nodes - 1, the indices of nodes.
Authors == DOMAIN nodes

\* ------------------------------------------------------------- time model
Max(a, b) == IF a >= b THEN a ELSE b

\* `v as i64`: the positive sample is truncated towards zero.
AsI64(sample) == sample \div SampleScale

\* A delay subtracted from the time.
AddDelayBackwards(time, sample) == time - AsI64(sample)

\* GlobalTime::add_delay
AddDelay(time, sample) == time + AsI64(sample)

\* GlobalTime::to_node_time / from_node_time
ToNodeTime(time, startup_time) == time - startup_time
FromNodeTime(node_time, startup_time) == node_time + startup_time

\* ------------------------------------------------------------------ events
DataSyncNotifyEvent(r, s, n) ==
    [kind |-> "DataSyncNotifyEvent", receiver |-> r, sender |-> s, notification |-> n]
DataSyncRequestEvent(r, s, q) ==
    [kind |-> "DataSyncRequestEvent", receiver |-> r, sender |-> s, request |-> q]
DataSyncResponseEvent(r, s, p) ==
    [kind |-> "DataSyncResponseEvent", receiver |-> r, sender |-> s, response |-> p]
UpdateTimerEvent(a) ==
    [kind |-> "UpdateTimerEvent", author |-> a]

\* Position of the variant in the enum declaration (derived Ord compares it first).
VariantIndex(e) ==
    CASE e.kind = "DataSyncNotifyEvent" -> 0
      [] e.kind = "DataSyncRequestEvent" -> 1
      [] e.kind = "DataSyncResponseEvent" -> 2
      [] e.kind = "UpdateTimerEvent" -> 3

\* The fields of an event in declaration order.
EventFields(e) ==
    CASE e.kind = "DataSyncNotifyEvent" -> <<e.receiver, e.sender, e.notification>>
      [] e.kind = "DataSyncRequestEvent" -> <<e.receiver, e.sender, e.request>>
      [] e.kind = "DataSyncResponseEvent" -> <<e.receiver, e.sender, e.response>>
      [] e.kind = "UpdateTimerEvent" -> <<e.author>>

\* Lexicographic < on two integer tuples of the same length.
LexLess(f, g) ==
    \E i \in 1 .. Len(f) :
        /\ f[i] < g[i]
        /\ \A j \in 1 .. (i - 1) : f[j] = g[j]

\* #[derive(Ord)] on Event: e1 < e2.
EventLess(e1, e2) ==
    \/ VariantIndex(e1) < VariantIndex(e2)
    \/ /\ VariantIndex(e1) = VariantIndex(e2)
       /\ LexLess(EventFields(e1), EventFields(e2))

ScheduledEvent(deadline, event) == [deadline |-> deadline, event |-> event]

\* A variant of the heap order that breaks ties towards the smaller event.
ScheduledLessAscending(s1, s2) ==
    \/ s1.deadline > s2.deadline
    \/ /\ s1.deadline = s2.deadline
       /\ EventLess(s2.event, s1.event)

\* #[derive(Ord)] on ScheduledEvent(Reverse(deadline), event): s1 < s2.
ScheduledLess(s1, s2) ==
    \/ s1.deadline > s2.deadline
    \/ /\ s1.deadline = s2.deadline
       /\ EventLess(s1.event, s2.event)

\* BinaryHeap::pop on a max-heap: the greatest element of the bag.
HeapPop(heap) ==
    CHOOSE s \in BagToSet(heap) :
        \A t \in BagToSet(heap) : t = s \/ ScheduledLess(t, s)

\* The heap after the pop.
HeapRest(heap) == heap (-) SetToBag({HeapPop(heap)})

\* ----------------------------------------------------------------- helpers
\* The scheduled events of a set of push records, as a bag.
PushBag(P) ==
    LET S == {ScheduledEvent(p.deadline, p.event) : p \in P}
    IN [s \in S |-> Cardinality({p \in P : ScheduledEvent(p.deadline, p.event) = s})]

NoEvent == ScheduledEvent(0, [kind |-> "None"])

\* No record has been constructed.
NoRecord == [kind |-> "None"]

\* One push onto pending_events: who pushed, Simulator.clock at the push,
\* and the scheduled event.
Push(by, clk, deadline, event) ==
    [by |-> by, clock |-> clk, deadline |-> deadline, event |-> event]

\* ------------------------------------------------------------ construction
\* A startup time without the + 1.
StartupTimeNoOffset(clk, sample) == AddDelay(clk, sample)

\* startup_time = clock.add_delay(network_delay) + 1
StartupTime(clk, sample) == AddDelay(clk, sample) + 1

\* ignore_scheduled_updates_until: startup_time + (-1)
InitialWatermark(startup_time) == startup_time + (-1)

\* The SimulatedNode built for one author; the factories return a fresh
\* context and node, written 0.
NewNode(sample) ==
    [startup_time |-> StartupTime(0, sample),
     ignore_scheduled_updates_until |-> InitialWatermark(StartupTime(0, sample)),
     node |-> 0,
     context |-> 0]

\* The initial timer pushed for one author.
InitialPush(author, startup_time) ==
    Push("new", 0, FromNodeTime(0, startup_time), UpdateTimerEvent(author))

\* Simulator::new
Init ==
    \E num_nodes \in 0 .. NumNodes :
    \E sample \in [0 .. (num_nodes - 1) -> DelaySamples] :
        /\ nodes = [a \in 0 .. (num_nodes - 1) |-> NewNode(sample[a])]
        /\ clock = 0
        /\ pushed = {InitialPush(a, StartupTime(0, sample[a])) : a \in Authors}
        /\ pending_events = PushBag(pushed)
        /\ last_timer = [a \in Authors |-> FromNodeTime(0, StartupTime(0, sample[a]))]
        /\ pc = "idle"
        /\ max_clock = 0
        /\ popped = NoEvent
        /\ outcome = "new"
        /\ calls = << >>
        /\ record = NoRecord

\* ---------------------------------------------------- process_node_actions
\* What update_node may return.
NodeUpdateActions ==
    [next_scheduled_update : NodeTimes,
     should_send : SUBSET Authors,
     should_broadcast : BOOLEAN,
     should_query_all : BOOLEAN]

\* A timer deadline without the clock + 1 floor.
NewDeadlineNoFloor(next_scheduled_update, startup_time, clk) ==
    FromNodeTime(next_scheduled_update, startup_time)

\* new_deadline = max(from_node_time(next_scheduled_update, startup_time), clock + 1)
NewDeadline(next_scheduled_update, startup_time, clk) ==
    Max(FromNodeTime(next_scheduled_update, startup_time), clk + 1)

\* A watermark equal to the new deadline.
WatermarkAtDeadline(new_deadline) == new_deadline

\* node.ignore_scheduled_updates_until = new_deadline + (-1)
Watermark(new_deadline) == new_deadline + (-1)

\* A fan-out that never notifies the author itself.
ReceiversButSelf(author, actions) ==
    (actions.should_send \cup
        (IF actions.should_broadcast THEN Authors ELSE {})) \ {author}

\* The receivers of the notification fan-out.
Receivers(author, actions) ==
    actions.should_send \cup
        (IF actions.should_broadcast THEN Authors \ {author} ELSE {})

\* A query fan-out that also queries the author itself.
SendersWithSelf(author, actions) ==
    IF actions.should_query_all THEN Authors ELSE {}

\* The senders of the query fan-out.
Senders(author, actions) ==
    IF actions.should_query_all THEN Authors \ {author} ELSE {}

\* The pushes of one process_node_actions call.  ndelay and qdelay are the
\* delay samples drawn for each receiver and each sender.
ActionPushes(clk, author, actions, notification, request, ndelay, qdelay) ==
    {Push("timer", clk,
          NewDeadline(actions.next_scheduled_update, nodes[author].startup_time, clk),
          UpdateTimerEvent(author))}
    \cup {Push("notify", clk, AddDelay(clk, ndelay[r]),
               DataSyncNotifyEvent(r, author, notification))
            : r \in Receivers(author, actions)}
    \cup {Push("query", clk, AddDelay(clk, qdelay[s]),
               DataSyncRequestEvent(author, s, request))
            : s \in Senders(author, actions)}

\* The nodes after a handler left node and context of author as given and
\* process_node_actions assigned the watermark.
NodesAfter(clk, author, actions, node, context) ==
    [nodes EXCEPT
        ![author].node = node,
        ![author].context = context,
        ![author].ignore_scheduled_updates_until =
            Watermark(NewDeadline(actions.next_scheduled_update,
                                  nodes[author].startup_time, clk))]

\* create_notification(&self) and create_request(&self) read the node and
\* nothing else; the state of the abstract node is the payload it would send.
CreateNotification(node) == node
CreateRequest(node) == node

\* A call of a node method, as recorded in calls.
Call(op, node) == [op |-> op, node |-> node]

\* --------------------------------------------------------------- loop_until
\* An effective clock that never follows the deadline.
EffectiveClockHeld(deadline, clk) == clk

\* let clock = std::cmp::max(clock, self.clock); self.clock = clock
EffectiveClock(deadline, clk) == Max(deadline, clk)

\* A run boundary that lets the deadline max_clock + 1 through.
PastMaxClockLate(deadline, mc) == deadline > mc + 1

\* if clock > max_clock { break; }
PastMaxClock(deadline, mc) == deadline > mc

\* A cancellation test that lets a timer at the watermark through.
TimerCancelledStrict(clk, watermark) == clk < watermark

\* A cancellation test that also drops the timer at watermark + 1.
TimerCancelledLate(clk, watermark) == clk <= watermark + 1

\* if clock <= node.ignore_scheduled_updates_until { continue; }
TimerCancelled(clk, watermark) == clk <= watermark

\* A reply with the fields of the notification swapped.
NotifyReplySwapped(receiver, sender, request) ==
    DataSyncRequestEvent(sender, receiver, request)

\* Event::DataSyncRequestEvent { sender, receiver, request } of the Notify arm
NotifyReply(receiver, sender, request) ==
    DataSyncRequestEvent(receiver, sender, request)

\* A request handled by its receiver.
RequestHandlerReceiver(receiver, sender) == receiver

\* self.simulated_node_mut(sender): the node that handles a request
RequestHandler(receiver, sender) == sender

\* Event::DataSyncResponseEvent { sender, receiver, response }
RequestReply(receiver, sender, response) ==
    DataSyncResponseEvent(receiver, sender, response)

\* The caller starts loop_until(max_clock, _) with max_clock in clocks.
LoopUntilIn(clocks) ==
    /\ pc = "idle"
    /\ \E mc \in clocks : max_clock' = mc
    /\ pc' = "loop"
    /\ popped' = NoEvent
    /\ outcome' = "called"
    /\ pushed' = {}
    /\ calls' = << >>
    /\ UNCHANGED <<clock, pending_events, nodes, last_timer, record>>

LoopUntil == LoopUntilIn(MaxClocks)

\* pending_events.pop() returns None: the while loop ends.
LoopEmpty ==
    /\ pc = "loop"
    /\ pending_events = EmptyBag
    /\ pc' = "idle"
    /\ popped' = NoEvent
    /\ outcome' = "empty"
    /\ pushed' = {}
    /\ calls' = << >>
    /\ UNCHANGED <<clock, pending_events, nodes, max_clock, last_timer, record>>

\* The popped deadline is past max_clock: break.
LoopBreak ==
    /\ pc = "loop"
    /\ pending_events # EmptyBag
    /\ \E s \in {HeapPop(pending_events)} :
        /\ PastMaxClock(s.deadline, max_clock)
        /\ pending_events' = pending_events (-) SetToBag({s})
        /\ popped' = s
    /\ pc' = "idle"
    /\ outcome' = "break"
    /\ pushed' = {}
    /\ calls' = << >>
    /\ UNCHANGED <<clock, nodes, max_clock, last_timer, record>>

\* The number of pushes of one process_node_actions call.
FanOut(author, actions) ==
    1 + Cardinality(Receivers(author, actions)) + Cardinality(Senders(author, actions))

\* The queue stays within MaxPending after one pop and n pushes.
Fits(n) == BagCardinality(pending_events) - 1 + n <= MaxPending

\* The queue as the code keeps it: every copy of every event.
AllCopies(bag) == bag

\* The queue as one loop_until call can observe it.  The loop reads the
\* queue only by popping its least deadline and returns at the first
\* deadline past max_clock, so within a call the iterations do not depend
\* on how many copies of an event past max_clock are pending, only on
\* whether there is one.
OneCopyPastMaxClock(bag) ==
    [s \in DOMAIN bag |-> IF PastMaxClock(s.deadline, max_clock) THEN 1 ELSE bag[s]]

\* The view of the queue a specification keeps: the queue itself, or the
\* queue as one call observes it.
Kept(one_call, bag) ==
    IF one_call THEN OneCopyPastMaxClock(bag) ELSE AllCopies(bag)

\* The end of an iteration that popped s, pushed the set P and called cs;
\* one_call tells which view of the queue the specification keeps.
IterateKeeping(one_call, s, what, P, cs) ==
    /\ clock' = EffectiveClock(s.deadline, clock)
    /\ pending_events' = Kept(one_call, (pending_events (-) SetToBag({s})) (+) PushBag(P))
    /\ popped' = s
    /\ outcome' = what
    /\ pushed' = P
    /\ calls' = cs
    /\ last_timer' = [a \in Authors |->
                        IF \E p \in P : p.event = UpdateTimerEvent(a)
                        THEN (CHOOSE p \in P : p.event = UpdateTimerEvent(a)).deadline
                        ELSE last_timer[a]]
    /\ UNCHANGED <<pc, max_clock, record>>

\* The end of an iteration, every pending copy kept.
Iterate(s, what, P, cs) == IterateKeeping(FALSE, s, what, P, cs)

\* UpdateTimerEvent arm, the timer was cancelled: continue.
UpdateTimerCancelled ==
    /\ pc = "loop"
    /\ pending_events # EmptyBag
    /\ \E s \in {HeapPop(pending_events)} :
        /\ ~PastMaxClock(s.deadline, max_clock)
        /\ s.event.kind = "UpdateTimerEvent"
        /\ TimerCancelled(EffectiveClock(s.deadline, clock),
                          nodes[s.event.author].ignore_scheduled_updates_until)
        /\ Iterate(s, "cancelled", {}, << >>)
        /\ UNCHANGED nodes

\* UpdateTimerEvent arm, the timer fires: node.update(clock), then
\* process_node_actions.  create_notification and create_request read the
\* node as update_node left it.  update_node returns actions in Acts and
\* leaves node and context in States.
UpdateTimerKeeping(one_call, Acts, States) ==
    /\ pc = "loop"
    /\ pending_events # EmptyBag
    /\ \E s \in {HeapPop(pending_events)} :
        /\ ~PastMaxClock(s.deadline, max_clock)
        /\ s.event.kind = "UpdateTimerEvent"
        /\ \E clk \in {EffectiveClock(s.deadline, clock)} :
            /\ ~TimerCancelled(clk, nodes[s.event.author].ignore_scheduled_updates_until)
            /\ \E actions \in Acts :
                /\ Fits(FanOut(s.event.author, actions))
                /\ \E node \in States, context \in States,
                      ndelay \in [Receivers(s.event.author, actions) -> DelaySamples],
                      qdelay \in [Senders(s.event.author, actions) -> DelaySamples] :
                    /\ nodes' = NodesAfter(clk, s.event.author, actions, node, context)
                    /\ IterateKeeping(one_call, s, "update",
                               ActionPushes(clk, s.event.author, actions,
                                            CreateNotification(node), CreateRequest(node),
                                            ndelay, qdelay),
                               <<Call("update_node", s.event.author)>>)

\* The timer arm with update_node returning actions in Acts.
UpdateTimerIn(Acts, States) == UpdateTimerKeeping(FALSE, Acts, States)

UpdateTimer == UpdateTimerIn(NodeUpdateActions, Payloads)

\* DataSyncNotifyEvent arm: handle_notification on the receiver, update,
\* the request the notification elicited, then process_node_actions.
\* handle_notification returns None or Some(q) with q in Requests.
DataSyncNotifyKeeping(one_call, Acts, States, Requests) ==
    /\ pc = "loop"
    /\ pending_events # EmptyBag
    /\ \E s \in {HeapPop(pending_events)} :
        /\ ~PastMaxClock(s.deadline, max_clock)
        /\ s.event.kind = "DataSyncNotifyEvent"
        /\ \E clk \in {EffectiveClock(s.deadline, clock)} :
           \E actions \in Acts :
           \E reply \in
                {{}} \cup {{Push("reply", clk, AddDelay(clk, d),
                                NotifyReply(s.event.receiver, s.event.sender, q))}
                            : q \in Requests, d \in DelaySamples} :
            /\ Fits(Cardinality(reply) + FanOut(s.event.receiver, actions))
            /\ \E node \in States, context \in States,
                  ndelay \in [Receivers(s.event.receiver, actions) -> DelaySamples],
                  qdelay \in [Senders(s.event.receiver, actions) -> DelaySamples] :
                /\ nodes' = NodesAfter(clk, s.event.receiver, actions, node, context)
                /\ IterateKeeping(one_call, s, "notify",
                           reply \cup ActionPushes(clk, s.event.receiver, actions,
                                                   CreateNotification(node),
                                                   CreateRequest(node), ndelay, qdelay),
                           <<[op |-> "handle_notification", node |-> s.event.receiver,
                              some |-> reply # {}],
                             Call("update_node", s.event.receiver)>>)

\* The Notify arm with update_node returning actions in Acts.
DataSyncNotifyIn(Acts, States, Requests) ==
    DataSyncNotifyKeeping(FALSE, Acts, States, Requests)

DataSyncNotify == DataSyncNotifyIn(NodeUpdateActions, Payloads, Payloads)

\* DataSyncRequestEvent arm: handle_request, then the response is scheduled.
DataSyncRequest ==
    /\ pc = "loop"
    /\ pending_events # EmptyBag
    /\ Fits(1)
    /\ \E s \in {HeapPop(pending_events)} :
        /\ ~PastMaxClock(s.deadline, max_clock)
        /\ s.event.kind = "DataSyncRequestEvent"
        /\ \E clk \in {EffectiveClock(s.deadline, clock)},
              handler \in {RequestHandler(s.event.receiver, s.event.sender)} :
           \E response \in Payloads, node \in Payloads, d \in DelaySamples :
            /\ nodes' = [nodes EXCEPT ![handler].node = node]
            /\ Iterate(s, "request",
                       {Push("response", clk, AddDelay(clk, d),
                             RequestReply(s.event.receiver, s.event.sender, response))},
                       <<[op |-> "handle_request", node |-> handler,
                          result |-> response]>>)

\* DataSyncResponseEvent arm: handle_response on the receiver, update, then
\* process_node_actions.
DataSyncResponse ==
    /\ pc = "loop"
    /\ pending_events # EmptyBag
    /\ \E s \in {HeapPop(pending_events)} :
        /\ ~PastMaxClock(s.deadline, max_clock)
        /\ s.event.kind = "DataSyncResponseEvent"
        /\ \E clk \in {EffectiveClock(s.deadline, clock)} :
           \E actions \in NodeUpdateActions :
            /\ Fits(FanOut(s.event.receiver, actions))
            /\ \E node \in Payloads, context \in Payloads,
                  ndelay \in [Receivers(s.event.receiver, actions) -> DelaySamples],
                  qdelay \in [Senders(s.event.receiver, actions) -> DelaySamples] :
                /\ nodes' = NodesAfter(clk, s.event.receiver, actions, node, context)
                /\ Iterate(s, "response",
                           ActionPushes(clk, s.event.receiver, actions,
                                        CreateNotification(node), CreateRequest(node),
                                        ndelay, qdelay),
                           <<Call("handle_response", s.event.receiver),
                             Call("update_node", s.event.receiver)>>)

Next ==
    \/ LoopUntil
    \/ LoopEmpty
    \/ LoopBreak
    \/ UpdateTimerCancelled
    \/ UpdateTimer
    \/ DataSyncNotify
    \/ DataSyncRequest
    \/ DataSyncResponse

Spec == Init /\ [][Next]_vars

\* ------------------------------------------------------------- properties
\* The outcomes of an iteration that handed the popped event to a node.
Dispatched == {"update", "notify", "request", "response"}

\* The pending timers of author a that the watermark does not cancel.
EffectiveTimers(a) ==
    {s \in BagToSet(pending_events) :
        /\ s.event = UpdateTimerEvent(a)
        /\ s.deadline > nodes[a].ignore_scheduled_updates_until}

\* C1 (P2, at-most-one-effective timer): in every reachable state, for each
\* author, at most one pending UpdateTimerEvent of that author has a deadline
\* strictly greater than the author's watermark.
C1_AtMostOneEffectiveTimer ==
    \A a \in Authors :
        /\ Cardinality(EffectiveTimers(a)) <= 1
        /\ \A s \in EffectiveTimers(a) : CopiesIn(s, pending_events) = 1

\* C2 as stated: every pop takes the smallest deadline and, among the pending
\* events of that deadline, the smallest event in the derived order.
C2_TiesAscending ==
    [][popped' # NoEvent =>
        \A t \in BagToSet(pending_events) :
            \/ t.deadline > popped'.deadline
            \/ /\ t.deadline = popped'.deadline
               /\ ~EventLess(t.event, popped'.event)]_vars

\* C2 amended: every pop takes the smallest deadline and, among the pending
\* events of that deadline, the GREATEST event in the derived order
\* (UpdateTimer before DataSyncResponse before DataSyncRequest before
\* DataSyncNotify, then greater fields first).
C2_TiesDescending ==
    [][popped' # NoEvent =>
        \A t \in BagToSet(pending_events) :
            \/ t.deadline > popped'.deadline
            \/ /\ t.deadline = popped'.deadline
               /\ ~EventLess(popped'.event, t.event)]_vars

\* C2 witness: an event was popped while a smaller event of the same deadline
\* was, and still is, pending.
C2_Witness ==
    /\ popped # NoEvent
    /\ \E t \in BagToSet(pending_events) :
        /\ t.deadline = popped.deadline
        /\ EventLess(t.event, popped.event)
        /\ \A p \in pushed : ScheduledEvent(p.deadline, p.event) # t

\* The DataSyncRequest events pushed by the last step.
PushedRequests == {p \in pushed : p.event.kind = "DataSyncRequestEvent"}

\* C3 as stated: after a DataSyncNotify{receiver r, sender s} whose
\* handle_notification returned Some(request), exactly one DataSyncRequest is
\* scheduled and it has receiver = s and sender = r; after None, none is.
C3_ReplySwapped ==
    outcome = "notify" =>
        IF calls[1].some
        THEN /\ Cardinality(PushedRequests) = 1
             /\ \A p \in PushedRequests :
                    /\ p.event.receiver = popped.event.sender
                    /\ p.event.sender = popped.event.receiver
        ELSE PushedRequests = {}

\* C3 amended: the Notify arm itself schedules exactly one DataSyncRequest
\* when handle_notification returned Some(request), with the fields of the
\* notification kept (receiver = r, sender = s), and none when it returned
\* None; every other DataSyncRequest of the iteration is a query of
\* process_node_actions with receiver = r.
C3_ReplyUnswapped ==
    outcome = "notify" =>
        LET replies == {p \in PushedRequests : p.by = "reply"}
        IN /\ IF calls[1].some
              THEN /\ Cardinality(replies) = 1
                   /\ \A p \in replies :
                          /\ p.event.receiver = popped.event.receiver
                          /\ p.event.sender = popped.event.sender
              ELSE replies = {}
           /\ \A p \in PushedRequests \ replies :
                  /\ p.by = "query"
                  /\ p.event.receiver = popped.event.receiver
                  /\ p.event.sender # popped.event.receiver

\* C3 witness: a notification between two different nodes was handled and
\* handle_notification returned a request.
C3_Witness ==
    /\ outcome = "notify"
    /\ calls[1].some
    /\ popped.event.receiver # popped.event.sender
    /\ \E p \in pushed : p.by = "reply"

\* C4 (totality): whenever a step removes an event from pending_events, the
\* event is handed to a node handler or dropped as a cancelled UpdateTimer.
C4_Totality ==
    [][(\E s \in BagToSet(pending_events) :
            CopiesIn(s, pending_events') < CopiesIn(s, pending_events))
        => (calls' # << >> \/ outcome' = "cancelled")]_vars

\* C5 (P1, monotone clock): the clock never decreases; an iteration that
\* processes an event sets it to the maximum of the event's deadline and the
\* previous clock; two events of equal deadline processed one after the
\* other see the same clock.
C5_MonotoneClock ==
    [][/\ clock' >= clock
       /\ outcome' \in Dispatched \cup {"cancelled"} =>
            clock' = Max(popped'.deadline, clock)
       /\ (/\ outcome \in Dispatched \cup {"cancelled"}
           /\ outcome' \in Dispatched \cup {"cancelled"}
           /\ popped'.deadline = popped.deadline) => clock' = clock]_vars

\* C5 witness: with both startup times 1, the timer of author 0 was processed
\* at clock 1 after the timer of author 1, of the same deadline, had been
\* processed at clock 1 (its watermark has moved).
C5_Witness ==
    /\ outcome = "update"
    /\ popped = ScheduledEvent(1, UpdateTimerEvent(0))
    /\ clock = 1
    /\ 1 \in Authors
    /\ nodes[1].startup_time = 1
    /\ nodes[1].ignore_scheduled_updates_until >= 1

\* C6 (P7, timer strictly future): every UpdateTimerEvent pushed, by
\* Simulator::new or by process_node_actions, has a deadline strictly greater
\* than Simulator.clock at the push.
C6_TimerStrictlyFuture ==
    \A p \in pushed :
        p.event.kind = "UpdateTimerEvent" =>
            /\ p.clock = clock
            /\ p.deadline > clock

\* C6 witness: process_node_actions pushed a timer at clock + 1 for a node
\* whose latest possible request, startup_time + MaxNodeTime, is earlier.
C6_Witness ==
    \E p \in pushed :
        /\ p.by = "timer"
        /\ p.deadline = clock + 1
        /\ FromNodeTime(MaxNodeTime, nodes[p.event.author].startup_time) < p.deadline

\* C7 (superseded timer): when an UpdateTimerEvent of author a is popped at an
\* effective clock <= a's watermark, no node method is called, nothing is
\* pushed and the nodes are unchanged; at an effective clock > the watermark
\* update_node is called exactly once, on a, and a's actions are processed.
C7_SupersededTimer ==
    [][outcome' \in {"cancelled", "update"} =>
        LET a == popped'.event.author
        IN /\ popped'.event.kind = "UpdateTimerEvent"
           /\ IF clock' <= nodes[a].ignore_scheduled_updates_until
              THEN /\ calls' = << >>
                   /\ pushed' = {}
                   /\ nodes' = nodes
                   /\ pending_events' = pending_events (-) SetToBag({popped'})
              ELSE /\ calls' = <<Call("update_node", a)>>
                   /\ \E p \in pushed' :
                        /\ p.by = "timer"
                        /\ p.event = UpdateTimerEvent(a)
                        /\ nodes'[a].ignore_scheduled_updates_until = p.deadline - 1]_vars

\* C7 witness: a timer was popped at a clock not past the watermark.
C7_Witness ==
    /\ outcome = "cancelled"
    /\ popped.event.kind = "UpdateTimerEvent"
    /\ clock <= nodes[popped.event.author].ignore_scheduled_updates_until

\* C8 (watermark tracks the last scheduled timer): in every reachable state
\* each author's watermark is the deadline of the timer pushed last for that
\* author, minus one.
C8_WatermarkTracksTimer ==
    \A a \in Authors :
        nodes[a].ignore_scheduled_updates_until = last_timer[a] - 1

\* C8 witness: process_node_actions pushed a timer later than the initial one.
C8_Witness ==
    \E p \in pushed :
        /\ p.by = "timer"
        /\ p.deadline > nodes[p.event.author].startup_time
        /\ last_timer[p.event.author] = p.deadline

\* The smallest deadline in a non-empty heap.
MinDeadline(heap) ==
    CHOOSE d \in {s.deadline : s \in BagToSet(heap)} :
        \A s \in BagToSet(heap) : d <= s.deadline

\* C9 (run boundary): loop_until hands no event with deadline > max_clock to
\* a node; a clock within max_clock stays within max_clock during the call;
\* and the call returns exactly when the queue is empty or its smallest
\* deadline exceeds max_clock.
C9_RunBoundary ==
    [][/\ calls' # << >> => popped'.deadline <= max_clock
       /\ (pc = "loop" /\ clock <= max_clock) => clock' <= max_clock
       /\ pc = "loop" =>
            (pc' = "idle" <=>
                (\/ pending_events = EmptyBag
                 \/ MinDeadline(pending_events) > max_clock))]_vars

\* C9 witness: the call returned on an event past max_clock while the clock
\* had been advanced by the call.
C9_Witness ==
    /\ outcome = "break"
    /\ popped.deadline > max_clock
    /\ clock > 0
    /\ clock <= max_clock

\* C10 (request handling): processing DataSyncRequest{receiver, sender,
\* request} calls handle_request on the node `sender` and nothing else,
\* pushes exactly one event, DataSyncResponse{receiver, sender, response}
\* with the response returned, and changes no watermark, no context, no
\* startup time and no node other than the handler's.
C10_RequestHandling ==
    [][outcome' = "request" =>
        /\ popped'.event.kind = "DataSyncRequestEvent"
        /\ Len(calls') = 1
        /\ calls'[1].op = "handle_request"
        /\ calls'[1].node = popped'.event.sender
        /\ Cardinality(pushed') = 1
        /\ \A p \in pushed' :
              p.event = DataSyncResponseEvent(popped'.event.receiver,
                                              popped'.event.sender, calls'[1].result)
        /\ \A a \in Authors :
              /\ nodes'[a].ignore_scheduled_updates_until
                    = nodes[a].ignore_scheduled_updates_until
              /\ nodes'[a].context = nodes[a].context
              /\ nodes'[a].startup_time = nodes[a].startup_time
              /\ a # popped'.event.sender => nodes'[a] = nodes[a]
        /\ last_timer' = last_timer]_vars

\* C10 witness: a request between two different nodes was handled.
C10_Witness ==
    /\ outcome = "request"
    /\ popped.event.receiver # popped.event.sender
    /\ calls[1].node = popped.event.sender

\* ------------------------------------- process_node_actions on drawn inputs
\* The orders in which a HashSet over S may be iterated: every enumeration
\* of S without repetition.
IterationOrders(S) ==
    {o \in [1 .. Cardinality(S) -> S] :
        \A i, j \in 1 .. Cardinality(S) : i # j => o[i] # o[j]}

\* The delay each member of a fan-out gets when the loop runs in the given
\* order and the k-th schedule_network_event of the call draws samples[k];
\* offset samples were drawn before the loop.
DelaysOf(order, samples, offset) ==
    [r \in {order[i] : i \in 1 .. Len(order)} |->
        samples[offset + (CHOOSE i \in 1 .. Len(order) : order[i] = r)]]

\* A simulator of at least one node, about to run process_node_actions at
\* some clock >= 1 (no event is processed earlier): the nodes are in any
\* state, the queue is left out.
InitActions ==
    \E num_nodes \in 1 .. NumNodes :
    \E sample \in [0 .. (num_nodes - 1) -> DelaySamples],
       state \in [0 .. (num_nodes - 1) -> Payloads] :
        /\ nodes = [a \in 0 .. (num_nodes - 1) |->
                        [NewNode(sample[a]) EXCEPT !.node = state[a]]]
        /\ clock \in MaxClocks \ {0}
        /\ pending_events = EmptyBag
        /\ last_timer = [a \in 0 .. (num_nodes - 1) |-> nodes[a].startup_time]
        /\ pc = "call"
        /\ max_clock = 0
        /\ popped = NoEvent
        /\ outcome = "new"
        /\ pushed = {}
        /\ calls = << >>
        /\ record = NoRecord

\* process_node_actions(clock, author, actions), with the samples the random
\* delay hands out during the call and the iteration orders of the two sets.
ProcessNodeActions ==
    /\ pc = "call"
    /\ \E author \in Authors, actions \in NodeUpdateActions :
       \E norder \in IterationOrders(Receivers(author, actions)),
          qorder \in IterationOrders(Senders(author, actions)),
          samples \in [1 .. (FanOut(author, actions) - 1) -> DelaySamples] :
       \E P \in {ActionPushes(clock, author, actions,
                              CreateNotification(nodes[author].node),
                              CreateRequest(nodes[author].node),
                              DelaysOf(norder, samples, 0),
                              DelaysOf(qorder, samples, Len(norder)))} :
        /\ nodes' = NodesAfter(clock, author, actions,
                               nodes[author].node, nodes[author].context)
        /\ pushed' = P
        /\ pending_events' = pending_events (+) PushBag(P)
        /\ calls' = <<[op |-> "process_node_actions", node |-> author,
                       actions |-> actions,
                       notification |-> CreateNotification(nodes[author].node),
                       request |-> CreateRequest(nodes[author].node),
                       samples |-> samples]>>
        /\ last_timer' = [last_timer EXCEPT ![author] =
                            NewDeadline(actions.next_scheduled_update,
                                        nodes[author].startup_time, clock)]
    /\ pc' = "idle"
    /\ outcome' = "actions"
    /\ UNCHANGED <<clock, max_clock, popped, record>>

SpecActions == InitActions /\ [][ProcessNodeActions]_vars

\* The pushes of the last step that schedule the given kind of event.
PushedOf(kind) == {p \in pushed : p.event.kind = kind}

\* C11 (notification fan-out): one process_node_actions call of author a
\* schedules exactly one DataSyncNotify per distinct member of
\* should_send \cup (all authors but a, if should_broadcast), each with
\* sender a and the one notification create_notification returned; with
\* should_broadcast and an empty should_send these are exactly N - 1 events,
\* none of them to a.
C11_NotificationFanOut ==
    outcome = "actions" =>
        LET c == calls[1]
            a == c.node
            sent == PushedOf("DataSyncNotifyEvent")
            expected == c.actions.should_send \cup
                            (IF c.actions.should_broadcast
                             THEN {b \in Authors : b # a} ELSE {})
        IN /\ {p.event.receiver : p \in sent} = expected
           /\ Cardinality(sent) = Cardinality(expected)
           /\ \A p \in sent :
                /\ p.by = "notify"
                /\ p.event.sender = a
                /\ p.event.notification = c.notification
                /\ CopiesIn(ScheduledEvent(p.deadline, p.event), pending_events)
                      = Cardinality({q \in pushed :
                            ScheduledEvent(q.deadline, q.event)
                                = ScheduledEvent(p.deadline, p.event)})
           /\ (c.actions.should_broadcast /\ c.actions.should_send = {}) =>
                /\ Cardinality(sent) = Cardinality(Authors) - 1
                /\ \A p \in sent : p.event.receiver # a

\* C11 witness: a broadcast by an author that is also in should_send: every
\* author, the sender included, got one notification.
C11_Witness ==
    /\ outcome = "actions"
    /\ Cardinality(Authors) = NumNodes
    /\ calls[1].actions.should_broadcast
    /\ calls[1].node \in calls[1].actions.should_send
    /\ {p.event.receiver : p \in PushedOf("DataSyncNotifyEvent")} = Authors
    /\ calls[1].notification = MaxPayload

\* C12 (query fan-out): with should_query_all one process_node_actions call
\* of author a schedules exactly N - 1 DataSyncRequest events, one per author
\* s # a, each with receiver a, sender s and the one request create_request
\* returned; without should_query_all the call schedules no DataSyncRequest.
C12_QueryFanOut ==
    outcome = "actions" =>
        LET c == calls[1]
            a == c.node
            queries == PushedOf("DataSyncRequestEvent")
        IN IF c.actions.should_query_all
           THEN /\ Cardinality(queries) = Cardinality(Authors) - 1
                /\ {p.event.sender : p \in queries} = {b \in Authors : b # a}
                /\ \A p \in queries :
                     /\ p.by = "query"
                     /\ p.event.receiver = a
                     /\ p.event.request = c.request
                     /\ CopiesIn(ScheduledEvent(p.deadline, p.event),
                                 pending_events) = 1
           ELSE queries = {}

\* C12 witness: an author of a full simulation queried every other author.
C12_Witness ==
    /\ outcome = "actions"
    /\ Cardinality(Authors) = NumNodes
    /\ calls[1].actions.should_query_all
    /\ Cardinality(PushedOf("DataSyncRequestEvent")) = NumNodes - 1
    /\ calls[1].request = MaxPayload

\* The value loop_until returns: the context of every node, in author order.
Contexts == [a \in Authors |-> nodes[a].context]

\* C13 (construction): right after Simulator::new the clock is 0 and
\* pending_events holds exactly N events, one UpdateTimerEvent per author at
\* deadline startup_time[a], with startup_time[a] >= 1 and watermark
\* startup_time[a] - 1; with N = 0 the queue is empty and stays empty, and
\* loop_until returns at once with an empty vector of contexts.
C13_Construction ==
    /\ [](outcome = "new" =>
            /\ clock = 0
            /\ BagCardinality(pending_events) = Cardinality(Authors)
            /\ \A a \in Authors :
                 /\ CopiesIn(ScheduledEvent(nodes[a].startup_time,
                                            UpdateTimerEvent(a)),
                             pending_events) = 1
                 /\ nodes[a].startup_time >= 1
                 /\ nodes[a].ignore_scheduled_updates_until
                        = nodes[a].startup_time - 1)
    /\ [](Authors = {} => pending_events = EmptyBag)
    /\ [][(Authors = {} /\ pc = "loop") =>
            /\ pc' = "idle"
            /\ outcome' = "empty"
            /\ calls' = << >>
            /\ clock' = 0
            /\ Contexts' = << >>]_vars

\* C13 witness: a simulator of NumNodes nodes was constructed with two
\* different startup times, the later one delayed by a whole tick.
C13_Witness ==
    /\ outcome = "new"
    /\ Cardinality(Authors) = NumNodes
    /\ \E a, b \in Authors :
        /\ nodes[a].startup_time = 1
        /\ nodes[b].startup_time > 1
        /\ CopiesIn(ScheduledEvent(nodes[b].startup_time, UpdateTimerEvent(b)),
                    pending_events) = 1

\* C14 (P6, determinism): two runs with the same factories and the same
\* sequence of delay samples schedule the same events; for one fan-out, the
\* delays the receivers and senders get are fixed by the node inputs and the
\* samples: whichever way the two sets are iterated, the pushes are the ones
\* the call made.
C14_Determinism ==
    outcome = "actions" =>
        LET c == calls[1]
        IN \A norder \in IterationOrders(Receivers(c.node, c.actions)),
              qorder \in IterationOrders(Senders(c.node, c.actions)) :
                ActionPushes(clock, c.node, c.actions, c.notification, c.request,
                             DelaysOf(norder, c.samples, 0),
                             DelaysOf(qorder, c.samples, Len(norder)))
                    = pushed

\* ------------------------------------------------------ records (record.rs)
\* Authors of records; the values of every other scalar field are Payloads.
RecordAuthors == 0 .. (NumNodes - 1)

\* Option<State>: None is << >>, Some(v) is <<v>>.
OptionalStates == {<< >>} \cup {<<v>> : v \in Payloads}

\* Signature(n), and the oracle Signature::sign(hash, author); the oracle's
\* answer is written as the pair it was asked about, after the hash.
Signature(n) == <<n>>
Sign(hash, author) == hash \o <<author>>

\* Vec<(Author, Signature)> up to MaxVotes entries.
VoteLists ==
    UNION {[1 .. n -> {<<a, Signature(v)>> : a \in RecordAuthors, v \in Payloads}]
            : n \in 0 .. MaxVotes}

\* A Hasher is the sequence of the values written to it so far; finish() of
\* DefaultHasher is taken to be injective in that sequence.
\* Option<T>::hash: the discriminant, then the value of Some.
HashOption(opt, state) ==
    IF opt = << >> THEN state \o <<0>> ELSE state \o <<1, opt[1]>>

\* Vec<(Author, Signature)>::hash: the length, then author and signature of
\* each element in order.
RECURSIVE HashElements(_, _)
HashElements(votes, state) ==
    IF votes = << >> THEN state
    ELSE HashElements(Tail(votes), state \o <<Head(votes)[1]>> \o Head(votes)[2])

HashVotes(votes, state) == HashElements(votes, state \o <<Len(votes)>>)

\* impl Hash for Block
HashBlock(b, state) ==
    state \o <<b.command, b.time, b.previous_quorum_certificate_hash,
               b.round, b.author>>

\* A Vote hash that also writes the signature, as a derived Hash would.
HashVoteDerived(v, state) ==
    HashOption(v.committed_state,
               state \o <<v.epoch_id, v.round, v.certified_block_hash, v.state>>)
        \o <<v.author>> \o v.signature

\* impl Hash for Vote
HashVote(v, state) ==
    HashOption(v.committed_state,
               state \o <<v.epoch_id, v.round, v.certified_block_hash, v.state>>)
        \o <<v.author>>

\* impl Hash for QuorumCertificate
HashQuorumCertificate(q, state) ==
    HashVotes(q.votes,
              HashOption(q.committed_state,
                         state \o <<q.epoch_id, q.round, q.certified_block_hash,
                                    q.state>>))
        \o <<q.author>>

\* impl Hash for Timeout
HashTimeout(t, state) == state \o <<t.epoch_id, t.round, t.author>>

\* Position of the variant in enum Record.
RecordIndex(r) ==
    CASE r.kind = "Block" -> 0
      [] r.kind = "Vote" -> 1
      [] r.kind = "QuorumCertificate" -> 2
      [] r.kind = "Timeout" -> 3

\* #[derive(Hash)] on enum Record: the discriminant, then the variant.
HashRecord(r, state) ==
    CASE r.kind = "Block" -> HashBlock(r, state \o <<RecordIndex(r)>>)
      [] r.kind = "Vote" -> HashVote(r, state \o <<RecordIndex(r)>>)
      [] r.kind = "QuorumCertificate" ->
            HashQuorumCertificate(r, state \o <<RecordIndex(r)>>)
      [] r.kind = "Timeout" -> HashTimeout(r, state \o <<RecordIndex(r)>>)

\* Record::digest
Digest(r) == HashRecord(r, << >>)

\* The back-patch of the four constructors: hash the value carrying
\* Signature(0), then store sign(hash, author).
Signed(value) ==
    [value EXCEPT !.signature = Sign(Digest(value), value.author)]

\* Record::make_block
MakeBlock(command, time, previous_quorum_certificate_hash, round, author) ==
    Signed([kind |-> "Block", command |-> command, time |-> time,
            previous_quorum_certificate_hash |-> previous_quorum_certificate_hash,
            round |-> round, author |-> author, signature |-> Signature(0)])

\* Record::make_vote
MakeVote(epoch_id, round, certified_block_hash, state, author, committed_state) ==
    Signed([kind |-> "Vote", epoch_id |-> epoch_id, round |-> round,
            certified_block_hash |-> certified_block_hash, state |-> state,
            author |-> author, signature |-> Signature(0),
            committed_state |-> committed_state])

\* Record::make_timeout
MakeTimeout(epoch_id, round, highest_certified_block_round, author) ==
    Signed([kind |-> "Timeout", epoch_id |-> epoch_id, round |-> round,
            highest_certified_block_round |-> highest_certified_block_round,
            author |-> author, signature |-> Signature(0)])

\* Record::make_quorum_certificate
MakeQuorumCertificate(epoch_id, round, certified_block_hash, state, votes, committed_state, author) ==
    Signed([kind |-> "QuorumCertificate", epoch_id |-> epoch_id, round |-> round,
            certified_block_hash |-> certified_block_hash, state |-> state,
            votes |-> votes, committed_state |-> committed_state,
            author |-> author, signature |-> Signature(0)])

\* The simulator takes no part in the construction of records: it is the
\* simulator of no node, and stays so.  One constructor is called, once.
InitRecords ==
    /\ record = NoRecord
    /\ nodes = << >>
    /\ clock = 0
    /\ pending_events = EmptyBag
    /\ last_timer = << >>
    /\ pc = "idle"
    /\ max_clock = 0
    /\ popped = NoEvent
    /\ outcome = "new"
    /\ pushed = {}
    /\ calls = << >>

\* The variables of the simulator.
Simulation == <<clock, pending_events, nodes, pc, max_clock, popped, outcome,
                pushed, calls, last_timer>>

MakeBlockCall ==
    /\ record = NoRecord
    /\ \E command \in Payloads, time \in Payloads, hash \in Payloads,
          round \in Payloads, author \in RecordAuthors :
            record' = MakeBlock(command, time, hash, round, author)
    /\ UNCHANGED Simulation

MakeVoteCall ==
    /\ record = NoRecord
    /\ \E epoch_id \in Payloads, round \in Payloads, hash \in Payloads,
          state \in Payloads, author \in RecordAuthors,
          committed_state \in OptionalStates :
            record' = MakeVote(epoch_id, round, hash, state, author, committed_state)
    /\ UNCHANGED Simulation

MakeTimeoutCall ==
    /\ record = NoRecord
    /\ \E epoch_id \in Payloads, round \in Payloads, highest \in Payloads,
          author \in RecordAuthors :
            record' = MakeTimeout(epoch_id, round, highest, author)
    /\ UNCHANGED Simulation

MakeQuorumCertificateCall ==
    /\ record = NoRecord
    /\ \E epoch_id \in Payloads, round \in Payloads, hash \in Payloads,
          state \in Payloads, votes \in VoteLists,
          committed_state \in OptionalStates, author \in RecordAuthors :
            record' = MakeQuorumCertificate(epoch_id, round, hash, state, votes,
                                            committed_state, author)
    /\ UNCHANGED Simulation

NextRecords ==
    \/ MakeBlockCall
    \/ MakeVoteCall
    \/ MakeTimeoutCall
    \/ MakeQuorumCertificateCall

SpecRecords == InitRecords /\ [][NextRecords]_vars

\* C15 (P4, signing contract): every record returned by make_block,
\* make_vote, make_timeout or make_quorum_certificate carries the signature
\* sign(digest, author) of its own digest, the digest being taken of the
\* returned, signed record.
C15_SigningContract ==
    record # NoRecord =>
        record.signature = Sign(Digest(record), record.author)

\* C15 witness: a signed Vote with a committed state was returned; its
\* signature is no longer the sentinel.
C15_Witness ==
    /\ record.kind = "Vote"
    /\ record.committed_state = <<MaxPayload>>
    /\ record.author = NumNodes - 1
    /\ record.signature # Signature(0)
    /\ record.signature = Sign(Digest([record EXCEPT !.signature = Signature(0)]),
                               record.author)

\* The values a field of a record may take.
FieldValues(field) ==
    CASE field = "author" -> RecordAuthors
      [] field = "committed_state" -> OptionalStates
      [] field = "votes" -> VoteLists
      [] field = "signature" -> {Signature(v) : v \in Payloads}
      [] OTHER -> Payloads

\* C16 (P3, hash excludes signature): for each of the four variants the
\* digest is unchanged when only the signature is changed, and changing any
\* other single field (Timeout.highest_certified_block_round included)
\* changes what is fed to the digest.
C16_HashCoversFields ==
    record # NoRecord =>
        /\ \A sig \in FieldValues("signature") :
              Digest([record EXCEPT !.signature = sig]) = Digest(record)
        /\ \A field \in DOMAIN record \ {"kind", "signature"} :
              \A v \in FieldValues(field) \ {record[field]} :
                  Digest([record EXCEPT ![field] = v]) # Digest(record)

\* --------------------------------------------------- runs of gossiping nodes
\* Nodes that only gossip: update_node asks for a wake-up and names
\* receivers of a notification, it never broadcasts and never queries;
\* handle_notification never asks for data; node and context stay as built.
\* Such runs are runs of the simulator, followed here to later clocks.
GossipActions ==
    [next_scheduled_update : 0 .. GossipMaxNodeTime,
     should_send : SUBSET Authors,
     should_broadcast : {FALSE},
     should_query_all : {FALSE}]

LoopUntilGossip == LoopUntilIn(0 .. GossipMaxClock)
UpdateTimerGossip == UpdateTimerIn(GossipActions, {0})
DataSyncNotifyGossip == DataSyncNotifyIn(GossipActions, {0}, {})

NextGossip ==
    \/ LoopUntilGossip
    \/ LoopEmpty
    \/ LoopBreak
    \/ UpdateTimerCancelled
    \/ UpdateTimerGossip
    \/ DataSyncNotifyGossip

SpecGossip == Init /\ [][NextGossip]_vars

\* C17 (timers fire only at the latest requested deadline): whenever the
\* UpdateTimer arm calls update_node on author a, the effective clock equals
\* a's watermark, as it was before the call, plus one.
C17_TimersFireAtLatest ==
    [][outcome' = "update" =>
        clock' = nodes[popped'.event.author].ignore_scheduled_updates_until + 1]_vars

\* The clock handed to the statistics sink: update_round_number(&self, &clock)
\* is called with the popped deadline, before the maximum is taken.
StatisticsClock(deadline, clk) == deadline

\* C18 (no event is ever in the past): every event is pushed with a deadline
\* >= the clock at the push; every event popped by loop_until has a deadline
\* >= Simulator.clock, so the clock after processing it is its deadline, and
\* the deadline handed to the statistics sink is the effective clock.
C18_NoEventInThePast ==
    /\ [](\A p \in pushed : p.clock = clock /\ p.deadline >= clock)
    /\ [](\A s \in BagToSet(pending_events) : s.deadline >= clock)
    /\ [][popped' # NoEvent =>
            /\ popped'.deadline >= clock
            /\ outcome' \in Dispatched \cup {"cancelled"} =>
                /\ clock' = popped'.deadline
                /\ StatisticsClock(popped'.deadline, clock)
                      = EffectiveClock(popped'.deadline, clock)]_vars

\* C18 witness: a network event pushed with a delay of 0 ticks was processed
\* at the clock it was pushed at, after the clock had moved.
C18_Witness ==
    /\ outcome \in {"notify", "request", "response"}
    /\ popped.deadline = clock
    /\ clock > 1
    /\ \E p \in pushed : p.by # "timer" /\ p.deadline = clock

\* Every author has a pending timer at exactly its watermark + 1.
WakeUpPending ==
    \A a \in Authors :
        CopiesIn(ScheduledEvent(nodes[a].ignore_scheduled_updates_until + 1,
                                UpdateTimerEvent(a)),
                 pending_events) >= 1

C20_ResponsesReturn ==
    /\ [](\A p \in PushedRequests :
            /\ p.by \in {"query", "reply"}
            /\ p.event.receiver = calls[Len(calls)].node
            /\ p.by = "reply" => calls[1].op = "handle_notification"
            /\ p.by = "query" =>
                 p.event.request = CreateRequest(nodes[p.event.receiver].node))
    /\ [][popped'.event.kind = "DataSyncRequestEvent" =>
            /\ Len(calls') = 1
            /\ calls'[1].op = "handle_request"
            /\ calls'[1].node = popped'.event.sender
            /\ \E p \in pushed' :
                 /\ p.event.kind = "DataSyncResponseEvent"
                 /\ p.event.receiver = popped'.event.receiver
                 /\ p.event.response = calls'[1].result]_vars
    /\ [][popped'.event.kind = "DataSyncResponseEvent" =>
            calls' = <<Call("handle_response", popped'.event.receiver),
                       Call("update_node", popped'.event.receiver)>>]_vars

\* The local clock a handler of the last step was given on author a:
\* clock.to_node_time(node.startup_time), with the effective clock.
LocalClock(a) == ToNodeTime(clock, nodes[a].startup_time)

\* C21 (no node runs before it starts): every call of update_node and of
\* handle_response on author a is made with a local clock
\* clock - startup_time[a] >= 0.
C21_NoRunBeforeStart ==
    \A i \in 1 .. Len(calls) :
        calls[i].op \in {"update_node", "handle_response"} =>
            LocalClock(calls[i].node) >= 0

\* ---------------------------------------------------------------------
\* One loop_until call, followed to its return.
\*
\* The first call after Simulator::new, with nodes that gossip as in
\* GossipActions, whose state an update may change, and delay samples that
\* may truncate to 0 ticks.  The queue
\* is kept as the call observes it (OneCopyPastMaxClock); the caller makes
\* no second call, so the copies left out are never read.  The while loop
\* is synchronous: once called it keeps iterating, which is the weak
\* fairness of its iterations.

\* The caller's only call of loop_until.
LoopUntilStorm == outcome = "new" /\ LoopUntilIn(0 .. GossipMaxClock)

UpdateTimerStorm ==
    UpdateTimerKeeping(TRUE, GossipActions, Payloads)

DataSyncNotifyStorm ==
    DataSyncNotifyKeeping(TRUE, GossipActions, Payloads, {})

\* One iteration of the while loop of loop_until.
StormIteration ==
    \/ LoopEmpty
    \/ LoopBreak
    \/ UpdateTimerCancelled
    \/ UpdateTimerStorm
    \/ DataSyncNotifyStorm

NextStorm ==
    \/ LoopUntilStorm
    \/ LoopEmpty
    \/ LoopBreak
    \/ UpdateTimerCancelled
    \/ UpdateTimerStorm
    \/ DataSyncNotifyStorm

SpecStorm == Init /\ [][NextStorm]_vars /\ WF_vars(StormIteration)

\* C22 (termination): every call loop_until(max_clock) returns after
\* finitely many iterations, whatever the nodes answer and whatever the
\* delay samples are: a call that has started leads to its return.
C22_Termination == (pc = "loop") ~> (pc = "idle")

====
